---- MODULE Spec2Model ----
(***************************************************************************)
(* The archaic-word dictionary pipeline of poetry-archaization-analysis:   *)
(*   src/parse_archaisms.py           the dictionary parser script         *)
(*   src/add_archaisms_from_manual.py the reconciler script                *)
(*                                                                         *)
(* A Python str is a sequence of characters; a character is a one-element  *)
(* TLA+ string.  The en-dash U+2013 is written "~" (the module text is     *)
(* ASCII), and Ord gives every character its Unicode code point, which is  *)
(* what Python's default string ordering compares.  None / NaN is the      *)
(* value None, a sequence that no str equals.                              *)
(***************************************************************************)
EXTENDS Integers, Sequences, FiniteSets, TLC

VARIABLES
    \* parse_archaisms.py
    lines,            \* the dictionary file, as readlines() returns it
    line_num,         \* number of lines the loop has consumed
    entries,          \* parse_archaisms_file: entries
    current_letter,   \* parse_archaisms_file: current_letter
    started_parsing,  \* parse_archaisms_file: started_parsing
    \* add_archaisms_from_manual.py
    manual_lines,     \* the manual word list file
    new_words,        \* main: new_words
    df_existing,      \* main: df_existing
    existing_words,   \* main: existing_words
    df_updated,       \* main: df_updated
    added_count,      \* main: added_count
    runs,             \* number of reconciler runs started
    \* the files both scripts write
    csv_file,         \* dataset/archaisms.csv
    parquet_file,     \* dataset/archaisms.parquet
    wordlist_file,    \* dataset/archaisms_wordlist.txt
    writes,           \* how many times each of the three files was written
    \* parse_xml_to_csv.py and analyze_archaism_frequency.py
    items,            \* the <item> elements of dataset/all.xml
    poems_data,       \* parse_xml_to_dataframe: poems_data, then poems.parquet
    stats,            \* calculate_decade_statistics: stats
    pc,               \* the position of the running script
    exit_status       \* the exit status of the last process, -1 while it runs

vars == <<lines, line_num, entries, current_letter, started_parsing,
          manual_lines, new_words, df_existing, existing_words, df_updated,
          added_count, runs, csv_file, parquet_file, wordlist_file, writes,
          items, poems_data, stats, pc, exit_status>>

parserVars == <<lines, line_num, entries, current_letter, started_parsing>>
reconcilerVars == <<manual_lines, new_words, df_existing, existing_words,
                    df_updated, added_count, runs>>
fileVars == <<csv_file, parquet_file, wordlist_file, writes>>
poemVars == <<items, poems_data, stats>>

-----------------------------------------------------------------------------
(* Bounds of the model *)

MaxLines == 2       \* plain lines of a dictionary file before its last line
MaxTokens == 2      \* comma-separated tokens generated in a words part
MaxRecords == 2     \* entry lines of the dictionary behind the record table
MaxManual == 2      \* lines of the manual word list
MaxRuns == 2        \* runs of the reconciler script
MaxPoems == 2       \* <item> elements of the XML file

-----------------------------------------------------------------------------
(* Characters and Python's str methods *)

None == <<"None">>

Space == " "
Comma == ","
Hyphen == "-"
EnDash == "~"
LParen == "("
RParen == ")"

UpperLetters == {"A", "B", "D"}
LowerLetters == {"a", "b", "d"}

\* ord(c)
Ord(c) ==
    CASE c = " " -> 32
      [] c = "(" -> 40
      [] c = ")" -> 41
      [] c = "," -> 44
      [] c = "-" -> 45
      [] c = "A" -> 65
      [] c = "B" -> 66
      [] c = "D" -> 68
      [] c = "a" -> 97
      [] c = "b" -> 98
      [] c = "d" -> 100
      [] c = "~" -> 8211

\* c.isspace(), c.isalpha(), c.isupper() of one character
IsSpace(c) == c = Space
IsAlpha(c) == c \in UpperLetters \cup LowerLetters
IsUpper(c) == c \in UpperLetters

\* c.lower(), c.upper() of one character
LowerChar(c) ==
    CASE c = "A" -> "a"
      [] c = "B" -> "b"
      [] c = "D" -> "d"
      [] OTHER -> c

UpperChar(c) ==
    CASE c = "a" -> "A"
      [] c = "b" -> "B"
      [] c = "d" -> "D"
      [] OTHER -> c

\* s.lower()
Lower(s) == [i \in 1..Len(s) |-> LowerChar(s[i])]

\* s.capitalize(): the first character upper-cased, the rest lower-cased
Capitalize(s) ==
    [i \in 1..Len(s) |-> IF i = 1 THEN UpperChar(s[i]) ELSE LowerChar(s[i])]

\* s.lstrip(), s.rstrip(), s.strip()
RECURSIVE LStrip(_)
LStrip(s) == IF s # <<>> /\ IsSpace(Head(s)) THEN LStrip(Tail(s)) ELSE s

RECURSIVE RStrip(_)
RStrip(s) ==
    IF s # <<>> /\ IsSpace(s[Len(s)])
    THEN RStrip(SubSeq(s, 1, Len(s) - 1))
    ELSE s

Strip(s) == RStrip(LStrip(s))

\* the index of the first character of s that is in set cs, 0 when none is
RECURSIVE FindFrom(_, _, _)
FindFrom(s, cs, i) ==
    IF i > Len(s) THEN 0
    ELSE IF s[i] \in cs THEN i
    ELSE FindFrom(s, cs, i + 1)

Find(s, cs) == FindFrom(s, cs, 1)

\* s.split(sep): always at least one piece
RECURSIVE Split(_, _)
Split(s, sep) ==
    LET i == Find(s, {sep})
    IN  IF i = 0 THEN <<s>>
        ELSE <<SubSeq(s, 1, i - 1)>> \o Split(SubSeq(s, i + 1, Len(s)), sep)

\* sep.join(parts)
RECURSIVE Join(_, _)
Join(parts, sep) ==
    IF parts = <<>> THEN <<>>
    ELSE IF Len(parts) = 1 THEN parts[1]
    ELSE parts[1] \o sep \o Join(Tail(parts), sep)

\* re.sub(r'\s*\([^)]*\)', '', s): every leftmost run "spaces ( ... )" is cut
RECURSIVE StripParens(_)
StripParens(s) ==
    IF s = <<>> THEN <<>>
    ELSE LET t == LStrip(s)
             close == IF t # <<>> /\ Head(t) = LParen THEN Find(t, {RParen}) ELSE 0
         IN  IF close > 0
             THEN StripParens(SubSeq(t, close + 1, Len(t)))
             ELSE <<Head(s)>> \o StripParens(Tail(s))

\* a < b for two str, as Python compares them: by code point, then by length
RECURSIVE StrLess(_, _)
StrLess(a, b) ==
    IF b = <<>> THEN FALSE
    ELSE IF a = <<>> THEN TRUE
    ELSE IF Head(a) # Head(b) THEN Ord(Head(a)) < Ord(Head(b))
    ELSE StrLess(Tail(a), Tail(b))

Range(f) == {f[i] : i \in DOMAIN f}

-----------------------------------------------------------------------------
(* parse_archaisms.py: parse_archaisms_file *)

Dashes == {EnDash, Hyphen}

\* a header test that forgets isupper()
IsHeaderAnyLetter(line) == Len(line) = 1 /\ IsAlpha(line[1])

\* line 38: len(line) == 1 and line.isalpha() and line.isupper()
IsHeader(line) == Len(line) = 1 /\ IsAlpha(line[1]) /\ IsUpper(line[1])

\* a greedy words part: the split is at the last dash of the line
LastDash(line) ==
    IF \E i \in 1..Len(line) : line[i] \in Dashes
    THEN CHOOSE i \in 1..Len(line) :
             /\ line[i] \in Dashes
             /\ \A j \in (i + 1)..Len(line) : line[j] \notin Dashes
    ELSE 0

\* line 49: re.match(r'^([^~\-]+?)\s*[~\-]\s*(.+)$', line).  Group 1 and the
\* \s* after it cannot hold a dash, so the dash matched is the first dash of
\* the line; the match needs a character before it and one after it.
FirstDash(line) == Find(line, Dashes)

Matches(line) == FirstDash(line) > 1 /\ FirstDash(line) < Len(line)

\* group(1): lazy, the shortest non-empty prefix followed by spaces only
Group1(line) ==
    LET before == SubSeq(line, 1, FirstDash(line) - 1)
    IN  IF RStrip(before) = <<>> THEN SubSeq(before, 1, 1) ELSE RStrip(before)

\* group(2): what is left once the greedy \s* has taken the leading spaces,
\* which gives one back when nothing else is left
Group2(line) ==
    LET after == SubSeq(line, FirstDash(line) + 1, Len(line))
    IN  IF LStrip(after) = <<>> THEN SubSeq(after, Len(after), Len(after))
        ELSE LStrip(after)

\* a split that forgets to strip the tokens
WordsUntrimmed(words_part) == Split(words_part, Comma)

\* line 56: [w.strip() for w in words_part.split(',')]
Words(words_part) ==
    LET parts == Split(words_part, Comma)
    IN  [i \in 1..Len(parts) |-> Strip(parts[i])]

\* line 62: re.sub(r'\s*\([^)]*\)', '', main_word).strip()
MainWordClean(main_word) == Strip(StripParens(main_word))

\* a join that removes the parenthesized annotations of the variants too
VariantsStripped(words) ==
    IF Len(words) > 1
    THEN Join([i \in 1..(Len(words) - 1) |-> MainWordClean(words[i + 1])],
              <<Comma, Space>>)
    ELSE None

\* a join that forgets the "else None"
VariantsAlwaysJoined(words) == Join(Tail(words), <<Comma, Space>>)

\* line 65: ', '.join(words[1:]) if len(words) > 1 else None
Variants(words) ==
    IF Len(words) > 1 THEN Join(Tail(words), <<Comma, Space>>) ELSE None

\* an entry that takes its letter from its own first character
EntryLetterFromWord(line, letter) ==
    LET words_part == Strip(Group1(line))
        definition == Strip(Group2(line))
        words == Words(words_part)
    IN  [word |-> MainWordClean(words[1]),
         definition |-> definition,
         variants |-> Variants(words),
         letter |-> <<UpperChar(words_part[1])>>,
         original |-> words_part]

\* lines 52-73: the entry appended for a matched line
Entry(line, letter) ==
    LET words_part == Strip(Group1(line))
        definition == Strip(Group2(line))
        words == Words(words_part)
    IN  [word |-> MainWordClean(words[1]),
         definition |-> definition,
         variants |-> Variants(words),
         letter |-> letter,
         original |-> words_part]

\* a loop body that forgets to skip the lines before the first header
ParseStepNoSkip(st, raw) ==
    LET line == Strip(raw)
    IN  IF line = <<>> THEN st
        ELSE IF IsHeader(line)
             THEN [st EXCEPT !.current_letter = line, !.started_parsing = TRUE]
        ELSE IF Matches(line)
             THEN [st EXCEPT !.entries = Append(@, Entry(line, st.current_letter))]
        ELSE st

\* a strict loop body: a line after the first header that is not an entry
\* ends the dictionary
ParseStepStrict(st, raw) ==
    LET line == Strip(raw)
    IN  IF line = <<>> THEN st
        ELSE IF IsHeader(line)
             THEN [st EXCEPT !.current_letter = line, !.started_parsing = TRUE]
        ELSE IF ~st.started_parsing THEN st
        ELSE IF Matches(line)
             THEN [st EXCEPT !.entries = Append(@, Entry(line, st.current_letter))]
        ELSE [st EXCEPT !.started_parsing = FALSE]

\* lines 30-73: one iteration of the loop, on the parser state
\* st = [entries, current_letter, started_parsing] and the raw line
ParseStep(st, raw) ==
    LET line == Strip(raw)
    IN  IF line = <<>> THEN st
        ELSE IF IsHeader(line)
             THEN [st EXCEPT !.current_letter = line, !.started_parsing = TRUE]
        ELSE IF ~st.started_parsing THEN st
        ELSE IF Matches(line)
             THEN [st EXCEPT !.entries = Append(@, Entry(line, st.current_letter))]
        ELSE st

\* lines 26-28: the state before the loop
ParserStart == [entries |-> <<>>, current_letter |-> None, started_parsing |-> FALSE]

\* lines 12-76: parse_archaisms_file on a whole file
RECURSIVE ParseFrom(_, _)
ParseFrom(st, file) ==
    IF file = <<>> THEN st ELSE ParseFrom(ParseStep(st, Head(file)), Tail(file))

ParseArchaismsFile(file) == ParseFrom(ParserStart, file).entries

\* extract_simple_word_list, lines 115-127: the set all_words
ExtractSimpleWordList(df) ==
    {Lower(df[i].word) : i \in DOMAIN df}
    \cup UNION {
        LET parts == Split(df[i].variants, Comma)
        IN  {Lower(Strip(StripParens(Strip(parts[k])))) :
                k \in {j \in DOMAIN parts : Strip(parts[j]) # <<>>}}
        : i \in {j \in DOMAIN df : df[j].variants # None}}

\* sorted(all_words), as lines 129 and 138 order the set: the one sequence
\* that holds every member once, in ascending str order
RECURSIVE SortedWords(_)
SortedWords(all_words) ==
    IF all_words = {} THEN <<>>
    ELSE LET least == CHOOSE w \in all_words :
                          \A v \in all_words \ {w} : StrLess(w, v)
         IN  <<least>> \o SortedWords(all_words \ {least})

-----------------------------------------------------------------------------
(* The dictionary files given to the parser script *)

Tokens == {<<"A", "b">>, <<"a", " ", "(", "b", ")">>, <<"(", "b", ")">>, <<>>}
Joiners == {<<",">>, <<" ", ",", " ">>}
Separators == {<<" ", "~", " ">>, <<"-">>, <<" ", " ", "~", " ">>}
Definitions == {<<"d">>, <<"d", " ", "-", " ", "d">>}

TokenSeqs == UNION {[1..n -> Tokens] : n \in 1..MaxTokens}
WordsParts == {Join(ts, j) : ts \in TokenSeqs, j \in Joiners}
EntryLines == {w \o s \o d : w \in WordsParts, s \in Separators, d \in Definitions}

PlainLines ==
    {<<"A">>, <<"B">>, <<"a">>, <<" ">>, <<"A", "b", " ", "~", " ", "d">>}

PlainFiles == UNION {[1..n -> PlainLines] : n \in 0..MaxLines}

\* lines whose first dash has nothing after it, or nothing before it
DashEdgeLines ==
    {<<"A", "b", " ", "~">>, <<"A", "b", "-", " ">>, <<"~", " ", "d">>, <<"-">>}

\* the shapes of the last line of a dictionary file
LastLines == EntryLines \cup DashEdgeLines

\* a file that does not exist
Missing == <<<<"Missing">>>>

-----------------------------------------------------------------------------
(* parse_archaisms.py: main *)

\* lines 180-181 (and lines 209-210 of the reconciler): the module calls
\* main() and drops the value it returns, so a main() that returns, with
\* whatever value, ends the process with exit status 0
ExitAfterReturn(value) == 0

\* an exception that nothing catches ends the process with exit status 1
ExitAfterException == 1

\* the poem scripts are not run
PoemsIdle ==
    /\ items = <<>>
    /\ poems_data = <<>>
    /\ stats = <<>>

ReconcilerIdle ==
    /\ manual_lines = <<>>
    /\ new_words = <<>>
    /\ df_existing = <<>>
    /\ existing_words = {}
    /\ df_updated = <<>>
    /\ added_count = 0
    /\ runs = 0

InitParser ==
    \* a few plain lines, then at most one line of any generated shape
    /\ \/ lines = Missing
       \/ \E f \in PlainFiles : lines = f
       \/ \E f \in PlainFiles, l \in LastLines : lines = f \o <<l>>
    /\ line_num = 0
    /\ entries = <<>>
    /\ current_letter = None
    /\ started_parsing = FALSE
    /\ ReconcilerIdle
    /\ csv_file = <<>>
    /\ parquet_file = <<>>
    /\ wordlist_file = <<>>
    /\ writes = [csv |-> 0, parquet |-> 0, wordlist |-> 0]
    /\ PoemsIdle
    /\ pc = "p_start"
    /\ exit_status = -1

\* lines 141-143: the input file is checked before anything is read
ParserMissingInput ==
    /\ pc = "p_start"
    /\ lines = Missing
    /\ pc' = "p_exit"
    /\ UNCHANGED <<parserVars, reconcilerVars, fileVars>>
    /\ exit_status' = ExitAfterReturn(1)
    /\ UNCHANGED poemVars

\* lines 146, 23-28: parse_archaisms_file opens the file
ParserOpen ==
    /\ pc = "p_start"
    /\ lines # Missing
    /\ pc' = "p_parse"
    /\ line_num' = 0
    /\ entries' = ParserStart.entries
    /\ current_letter' = ParserStart.current_letter
    /\ started_parsing' = ParserStart.started_parsing
    /\ UNCHANGED <<lines, reconcilerVars, fileVars>>
    /\ UNCHANGED exit_status
    /\ UNCHANGED poemVars

\* lines 30-73: the loop body on the next line
ParseLine ==
    /\ pc = "p_parse"
    /\ line_num < Len(lines)
    /\ LET st == ParseStep([entries |-> entries,
                            current_letter |-> current_letter,
                            started_parsing |-> started_parsing],
                           lines[line_num + 1])
       IN  /\ entries' = st.entries
           /\ current_letter' = st.current_letter
           /\ started_parsing' = st.started_parsing
    /\ line_num' = line_num + 1
    /\ UNCHANGED <<lines, pc, reconcilerVars, fileVars>>
    /\ UNCHANGED exit_status
    /\ UNCHANGED poemVars

\* lines 149-152: pd.DataFrame([]) has no columns, and analyze_dictionary
\* raises KeyError on df['variants'] before anything is written
ParserNoEntries ==
    /\ pc = "p_parse"
    /\ line_num = Len(lines)
    /\ entries = <<>>
    /\ pc' = "p_keyerror"
    /\ UNCHANGED <<parserVars, reconcilerVars, fileVars>>
    /\ exit_status' = ExitAfterException
    /\ UNCHANGED poemVars

\* a save that leaves the Parquet file out
ParserSaveCsvOnly ==
    /\ pc = "p_parse"
    /\ line_num = Len(lines)
    /\ entries # <<>>
    /\ csv_file' = entries
    /\ parquet_file' = parquet_file
    /\ wordlist_file' = SortedWords(ExtractSimpleWordList(entries))
    /\ writes' = [csv |-> writes.csv + 1, parquet |-> writes.parquet,
                  wordlist |-> writes.wordlist + 1]
    /\ pc' = "p_done"
    /\ UNCHANGED <<parserVars, reconcilerVars>>
    /\ exit_status' = ExitAfterReturn(0)
    /\ UNCHANGED poemVars

\* lines 154-170: the three files are written
ParserSave ==
    /\ pc = "p_parse"
    /\ line_num = Len(lines)
    /\ entries # <<>>
    /\ csv_file' = entries
    /\ parquet_file' = entries
    /\ wordlist_file' = SortedWords(ExtractSimpleWordList(entries))
    /\ writes' = [csv |-> writes.csv + 1, parquet |-> writes.parquet + 1,
                  wordlist |-> writes.wordlist + 1]
    /\ pc' = "p_done"
    /\ UNCHANGED <<parserVars, reconcilerVars>>
    /\ exit_status' = ExitAfterReturn(0)
    /\ UNCHANGED poemVars

NextParser ==
    \/ ParserMissingInput
    \/ ParserOpen
    \/ ParseLine
    \/ ParserNoEntries
    \/ ParserSave

SpecParser == InitParser /\ [][NextParser]_vars

-----------------------------------------------------------------------------
(* add_archaisms_from_manual.py *)

\* the definition given to every added word (line 99)
Placeholder == <<"D", "a", " ", "(", "b", ")">>

\* a loader that forgets to lower-case the lines
LoadManualArchaismsNoLower(file) ==
    SortedWords({Strip(file[i]) : i \in {j \in DOMAIN file : Strip(file[j]) # <<>>}})

\* a loader that drops the duplicates but keeps the order of the file
RECURSIVE InFileOrder(_)
InFileOrder(words) ==
    IF words = <<>> THEN <<>>
    ELSE LET front == InFileOrder(SubSeq(words, 1, Len(words) - 1))
         IN  IF words[Len(words)] \in Range(front)
             THEN front
             ELSE Append(front, words[Len(words)])

NonBlank(raw) == Strip(raw) # <<>>

LoadManualArchaismsUnsorted(file) ==
    InFileOrder([i \in 1..Len(SelectSeq(file, NonBlank)) |->
                    Lower(Strip(SelectSeq(file, NonBlank)[i]))])

\* load_manual_archaisms, lines 22-32: sorted(set(words)) of the stripped,
\* non-empty, lower-cased lines
LoadManualArchaisms(file) ==
    SortedWords({Lower(Strip(file[i])) :
                    i \in {j \in DOMAIN file : Strip(file[j]) # <<>>}})

\* pd.read_csv (line 38) of what to_csv wrote: an empty field, which is how
\* both None and "" are written, is read back as NaN
ReadCell(v) == IF v = <<>> \/ v = None THEN None ELSE v

ReadCsv(table) ==
    [i \in DOMAIN table |->
        [word |-> ReadCell(table[i].word),
         definition |-> ReadCell(table[i].definition),
         variants |-> ReadCell(table[i].variants),
         letter |-> ReadCell(table[i].letter),
         original |-> ReadCell(table[i].original)]]

\* Series.str.lower(): NaN stays NaN
StrLower(v) == IF v = None THEN None ELSE Lower(v)

\* the tokens a variants cell adds to a lookup set (lines 48-52, 130-134)
VariantWords(variants) ==
    LET parts == Split(variants, Comma)
    IN  {Lower(Strip(parts[k])) : k \in {j \in DOMAIN parts : Strip(parts[j]) # <<>>}}

\* a lookup set that forgets to lower-case the words
LoadExistingWordsCaseSensitive(df) ==
    {df[i].word : i \in DOMAIN df}
    \cup UNION {VariantWords(df[i].variants) :
                    i \in {j \in DOMAIN df : df[j].variants # None}}

\* a lookup set of the headwords alone
LoadExistingWordsNoVariants(df) == {StrLower(df[i].word) : i \in DOMAIN df}

\* load_existing_archaisms, lines 41-52: existing_words
LoadExistingWords(df) ==
    {StrLower(df[i].word) : i \in DOMAIN df}
    \cup UNION {VariantWords(df[i].variants) :
                    i \in {j \in DOMAIN df : df[j].variants # None}}

\* update_wordlist, lines 124-134: all_words
UpdateWordlistWords(df) ==
    {StrLower(df[i].word) : i \in DOMAIN df}
    \cup UNION {VariantWords(df[i].variants) :
                    i \in {j \in DOMAIN df : df[j].variants # None}}

\* a partition that never looks at the last proposed word
WordsToAddOffByOne(existing, proposed) ==
    SelectSeq(SubSeq(proposed, 1, Len(proposed) - 1),
              LAMBDA word : word \notin existing)

\* lines 69-76: words_to_add
WordsToAdd(existing, proposed) ==
    SelectSeq(proposed, LAMBDA word : word \notin existing)

\* new rows whose letter is the first character as it stands
NewRowsLetterAsIs(words_to_add) ==
    [i \in DOMAIN words_to_add |->
        [word |-> Capitalize(words_to_add[i]),
         definition |-> Placeholder,
         variants |-> None,
         letter |-> <<words_to_add[i][1]>>,
         original |-> Capitalize(words_to_add[i])]]

\* lines 95-103: new_rows
NewRows(words_to_add) ==
    [i \in DOMAIN words_to_add |->
        [word |-> Capitalize(words_to_add[i]),
         definition |-> Placeholder,
         variants |-> None,
         letter |-> <<UpperChar(words_to_add[i][1])>>,
         original |-> Capitalize(words_to_add[i])]]

\* the sort key order of sort_values('word'): ascending, NaN last
KeyLess(a, b) == a # None /\ (b = None \/ StrLess(a, b))

RemoveAt(seq, i) == SubSeq(seq, 1, i - 1) \o SubSeq(seq, i + 1, Len(seq))

\* line 111: df.sort_values('word').reset_index(drop=True).  The default
\* kind is quicksort, which is not stable: rows with equal words may come
\* out in any order, so the result is any one of the sorted arrangements.
RECURSIVE SortValues(_)
SortValues(df) ==
    IF df = <<>> THEN {<<>>}
    ELSE UNION {
        {<<df[i]>> \o rest : rest \in SortValues(RemoveAt(df, i))}
        : i \in {j \in DOMAIN df :
                    \A k \in DOMAIN df : ~KeyLess(df[k].word, df[j].word)}}

\* the rows of df whose word no earlier row has
RECURSIVE DropDuplicates(_)
DropDuplicates(df) ==
    IF df = <<>> THEN <<>>
    ELSE LET front == DropDuplicates(SubSeq(df, 1, Len(df) - 1))
         IN  IF \E i \in DOMAIN front : front[i].word = df[Len(df)].word
             THEN front
             ELSE Append(front, df[Len(df)])

\* a merge that keeps one row per headword
AddNewArchaismsDropDuplicates(df, existing, proposed) ==
    IF NewRows(WordsToAdd(existing, proposed)) # <<>>
    THEN SortValues(DropDuplicates(df \o NewRows(WordsToAdd(existing, proposed))))
    ELSE {df}

\* a merge that forgets to sort
AddNewArchaismsUnsorted(df, existing, proposed) ==
    {df \o NewRows(WordsToAdd(existing, proposed))}

\* add_new_archaisms, lines 105-115: the collections it may return
AddNewArchaisms(df, existing, proposed) ==
    IF NewRows(WordsToAdd(existing, proposed)) # <<>>
    THEN SortValues(df \o NewRows(WordsToAdd(existing, proposed)))
    ELSE {df}

-----------------------------------------------------------------------------
(* add_archaisms_from_manual.py: main, run after the parser script *)

\* the script is started once the parser script has ended
StartReconciler ==
    /\ pc \in {"p_done", "p_exit", "p_keyerror"}
    /\ runs = 0
    /\ runs' = 1
    /\ pc' = "r_start"
    /\ UNCHANGED <<parserVars, fileVars, manual_lines, new_words, df_existing,
                   existing_words, df_updated, added_count>>
    /\ exit_status' = -1
    /\ UNCHANGED poemVars

\* a script that opens the lookup-set file for writing before it looks for
\* the manual list
ReconcilerMissingManualTruncates ==
    /\ pc = "r_start"
    /\ manual_lines = Missing
    /\ pc' = "r_exit"
    /\ wordlist_file' = <<>>
    /\ writes' = [writes EXCEPT !.wordlist = @ + 1]
    /\ UNCHANGED <<parserVars, reconcilerVars, csv_file, parquet_file>>
    /\ exit_status' = ExitAfterReturn(1)
    /\ UNCHANGED poemVars

\* lines 156-158: the manual list is checked before anything is read
ReconcilerMissingManual ==
    /\ pc = "r_start"
    /\ manual_lines = Missing
    /\ pc' = "r_exit"
    /\ UNCHANGED <<parserVars, reconcilerVars, fileVars>>
    /\ exit_status' = ExitAfterReturn(1)
    /\ UNCHANGED poemVars

\* line 161
LoadManual ==
    /\ pc = "r_start"
    /\ manual_lines # Missing
    /\ new_words' = LoadManualArchaisms(manual_lines)
    /\ pc' = "r_manual"
    /\ UNCHANGED <<parserVars, fileVars, manual_lines, df_existing,
                   existing_words, df_updated, added_count, runs>>
    /\ UNCHANGED exit_status
    /\ UNCHANGED poemVars

\* line 162, 38: pd.read_csv raises FileNotFoundError when there is no table
LoadExistingMissing ==
    /\ pc = "r_manual"
    /\ csv_file = <<>>
    /\ pc' = "r_filenotfound"
    /\ UNCHANGED <<parserVars, reconcilerVars, fileVars>>
    /\ exit_status' = ExitAfterException
    /\ UNCHANGED poemVars

\* line 162: load_existing_archaisms
LoadExisting ==
    /\ pc = "r_manual"
    /\ csv_file # <<>>
    /\ df_existing' = ReadCsv(csv_file)
    /\ existing_words' = LoadExistingWords(ReadCsv(csv_file))
    /\ pc' = "r_loaded"
    /\ UNCHANGED <<parserVars, fileVars, manual_lines, new_words, df_updated,
                   added_count, runs>>
    /\ UNCHANGED exit_status
    /\ UNCHANGED poemVars

\* an add_new_archaisms that returns the number of proposed words
AddNewCountsProposed ==
    /\ pc = "r_loaded"
    /\ df_updated' \in AddNewArchaisms(df_existing, existing_words, new_words)
    /\ added_count' = Len(new_words)
    /\ pc' = "r_added"
    /\ UNCHANGED <<parserVars, fileVars, manual_lines, new_words, df_existing,
                   existing_words, runs>>
    /\ UNCHANGED exit_status
    /\ UNCHANGED poemVars

\* line 165: add_new_archaisms
AddNew ==
    /\ pc = "r_loaded"
    /\ df_updated' \in AddNewArchaisms(df_existing, existing_words, new_words)
    /\ added_count' = Len(WordsToAdd(existing_words, new_words))
    /\ pc' = "r_added"
    /\ UNCHANGED <<parserVars, fileVars, manual_lines, new_words, df_existing,
                   existing_words, runs>>
    /\ UNCHANGED exit_status
    /\ UNCHANGED poemVars

\* a save that appends the added words to the lookup-set file
SaveUpdatedAppending ==
    /\ pc = "r_added"
    /\ added_count > 0
    /\ csv_file' = df_updated
    /\ parquet_file' = df_updated
    /\ wordlist_file' = wordlist_file \o WordsToAdd(existing_words, new_words)
    /\ writes' = [csv |-> writes.csv + 1, parquet |-> writes.parquet + 1,
                  wordlist |-> writes.wordlist + 1]
    /\ pc' = "r_done"
    /\ UNCHANGED <<parserVars, reconcilerVars>>
    /\ exit_status' = ExitAfterReturn(0)
    /\ UNCHANGED poemVars

\* lines 168-186: the three files are written when something was added
SaveUpdated ==
    /\ pc = "r_added"
    /\ added_count > 0
    /\ csv_file' = df_updated
    /\ parquet_file' = df_updated
    /\ wordlist_file' = SortedWords(UpdateWordlistWords(df_updated))
    /\ writes' = [csv |-> writes.csv + 1, parquet |-> writes.parquet + 1,
                  wordlist |-> writes.wordlist + 1]
    /\ pc' = "r_done"
    /\ UNCHANGED <<parserVars, reconcilerVars>>
    /\ exit_status' = ExitAfterReturn(0)
    /\ UNCHANGED poemVars

\* a run that writes the three files also when nothing was added
NothingToSaveRewrites ==
    /\ pc = "r_added"
    /\ added_count = 0
    /\ csv_file' = df_updated
    /\ parquet_file' = df_updated
    /\ wordlist_file' = SortedWords(UpdateWordlistWords(df_updated))
    /\ writes' = [csv |-> writes.csv + 1, parquet |-> writes.parquet + 1,
                  wordlist |-> writes.wordlist + 1]
    /\ pc' = "r_done"
    /\ UNCHANGED <<parserVars, reconcilerVars>>
    /\ exit_status' = ExitAfterReturn(0)
    /\ UNCHANGED poemVars

\* lines 187-190: nothing is written otherwise
NothingToSave ==
    /\ pc = "r_added"
    /\ added_count = 0
    /\ pc' = "r_done"
    /\ UNCHANGED <<parserVars, reconcilerVars, fileVars>>
    /\ exit_status' = ExitAfterReturn(0)
    /\ UNCHANGED poemVars

\* the script is run again, on the same manual list
RunAgain ==
    /\ pc = "r_done"
    /\ runs < MaxRuns
    /\ runs' = runs + 1
    /\ pc' = "r_start"
    /\ UNCHANGED <<parserVars, fileVars, manual_lines, new_words, df_existing,
                   existing_words, df_updated, added_count>>
    /\ exit_status' = -1
    /\ UNCHANGED poemVars

NextReconciler ==
    \/ StartReconciler
    \/ ReconcilerMissingManual
    \/ LoadManual
    \/ LoadExistingMissing
    \/ LoadExisting
    \/ AddNew
    \/ SaveUpdated
    \/ NothingToSave
    \/ RunAgain

-----------------------------------------------------------------------------
(* The pipeline: the parser script on a dictionary, then the reconciler *)

\* entry lines of the dictionary behind the record table
SeedLines ==
    {<<"A", "b", " ", "~", " ", "d">>,
     <<"A", "b", " ", ",", "B", ",", " ", "a", "b", " ", "~", " ", "d">>,
     <<"B", ",", " ", "a", " ", "(", "b", ")", " ", "~", " ", "d">>,
     <<"a", ",", ",", " ", "D", " ", "-", " ", "d">>}

SeedFiles ==
    {<<<<"A">>>> \o f : f \in UNION {[1..n -> SeedLines] : n \in 0..MaxRecords}}

\* lines of the manual word list
ManualLines == {<<"A", "b", " ">>, <<"a">>, <<"d">>, <<"B">>, <<" ">>}

ManualFiles == UNION {[1..n -> ManualLines] : n \in 0..MaxManual}

Init ==
    /\ lines \in SeedFiles \cup {Missing}
    /\ line_num = 0
    /\ entries = <<>>
    /\ current_letter = None
    /\ started_parsing = FALSE
    /\ manual_lines \in ManualFiles \cup {Missing}
    /\ new_words = <<>>
    /\ df_existing = <<>>
    /\ existing_words = {}
    /\ df_updated = <<>>
    /\ added_count = 0
    /\ runs = 0
    /\ csv_file = <<>>
    /\ parquet_file = <<>>
    /\ wordlist_file = <<>>
    /\ writes = [csv |-> 0, parquet |-> 0, wordlist |-> 0]
    /\ PoemsIdle
    /\ pc = "p_start"
    /\ exit_status = -1

Next == NextParser \/ NextReconciler

Spec == Init /\ [][Next]_vars

-----------------------------------------------------------------------------
(* parse_xml_to_csv.py: parse_xml_to_dataframe and main *)

\* a year is <<n>>; the year None (NaN in the frame) is NoYear
NoYear == <<>>

Digits == {"0", "1", "2", "3", "4", "5", "6", "7", "8", "9"}

DigitValue(c) ==
    CASE c = "0" -> 0 [] c = "1" -> 1 [] c = "2" -> 2 [] c = "3" -> 3
      [] c = "4" -> 4 [] c = "5" -> 5 [] c = "6" -> 6 [] c = "7" -> 7
      [] c = "8" -> 8 [] c = "9" -> 9

\* the part of a trimmed numeral after its sign
Unsigned(s) == IF s # <<>> /\ s[1] \in {"-", "+"} THEN Tail(s) ELSE s

\* int(text) does not raise ValueError: whitespace around, an optional sign,
\* then digits and nothing else
IsInt(text) ==
    /\ Unsigned(Strip(text)) # <<>>
    /\ \A i \in DOMAIN Unsigned(Strip(text)) : Unsigned(Strip(text))[i] \in Digits

RECURSIVE DecimalValue(_)
DecimalValue(digits) ==
    IF digits = <<>> THEN 0
    ELSE 10 * DecimalValue(SubSeq(digits, 1, Len(digits) - 1))
             + DigitValue(digits[Len(digits)])

\* int(text), for a text on which it does not raise
IntOf(text) ==
    IF Strip(text)[1] = "-"
    THEN 0 - DecimalValue(Unsigned(Strip(text)))
    ELSE DecimalValue(Unsigned(Strip(text)))

\* a mean that rounds a half up
YearRoundedUp(date_from_text, date_to_text) ==
    IF date_from_text # None /\ date_to_text # None
    THEN IF IsInt(date_from_text) /\ IsInt(date_to_text)
         THEN <<(IntOf(date_from_text) + IntOf(date_to_text) + 1) \div 2>>
         ELSE NoYear
    ELSE IF date_from_text # None
         THEN IF IsInt(date_from_text) THEN <<IntOf(date_from_text)>> ELSE NoYear
    ELSE IF date_to_text # None
         THEN IF IsInt(date_to_text) THEN <<IntOf(date_to_text)>> ELSE NoYear
    ELSE NoYear

\* lines 56-65: year; a ValueError from either int() leaves it None
Year(date_from_text, date_to_text) ==
    IF date_from_text # None /\ date_to_text # None
    THEN IF IsInt(date_from_text) /\ IsInt(date_to_text)
         THEN <<(IntOf(date_from_text) + IntOf(date_to_text)) \div 2>>
         ELSE NoYear
    ELSE IF date_from_text # None
         THEN IF IsInt(date_from_text) THEN <<IntOf(date_from_text)>> ELSE NoYear
    ELSE IF date_to_text # None
         THEN IF IsInt(date_to_text) THEN <<IntOf(date_to_text)>> ELSE NoYear
    ELSE NoYear

\* lines 33-75: the record appended for one <item>
Poem(item) ==
    [text |-> item.text,
     date_from |-> item.date_from,
     date_to |-> item.date_to,
     year |-> Year(item.date_from, item.date_to)]

\* the XML files: the date elements hold a numeral or another text, or are
\* empty or not there (None); the text element holds a poem or is not there
DateTexts == {None, <<"1", "3">>, <<"-", "1", "8">>, <<"x">>}
PoemTexts == {None, <<"A", "b", " ", "a", "1", " ", "b">>}

Items == [text : PoemTexts, date_from : DateTexts, date_to : DateTexts]
XmlFiles == UNION {[1..n -> Items] : n \in 0..MaxPoems}

\* an XML file that does not exist
MissingXml == <<[text |-> <<"Missing">>, date_from |-> None, date_to |-> None]>>

\* the lookup-set files the analysis may find
PoemWordlists == {<< <<"a", "b">> >>, << <<"B">>, <<" ">>, <<"a">> >>}

\* the dictionary scripts are not run
ParserIdle ==
    /\ lines = <<>>
    /\ line_num = 0
    /\ entries = <<>>
    /\ current_letter = None
    /\ started_parsing = FALSE

InitPoems ==
    /\ items \in XmlFiles \cup {MissingXml}
    /\ poems_data = <<>>
    /\ stats = <<>>
    /\ wordlist_file \in PoemWordlists
    /\ csv_file = <<>>
    /\ parquet_file = <<>>
    /\ writes = [csv |-> 0, parquet |-> 0, wordlist |-> 0]
    /\ ParserIdle
    /\ ReconcilerIdle
    /\ pc = "x_start"
    /\ exit_status = -1

\* lines 133-135: sys.exit(1) when there is no XML file
XmlMissingInput ==
    /\ pc = "x_start"
    /\ items = MissingXml
    /\ pc' = "x_exit"
    /\ exit_status' = 1
    /\ UNCHANGED <<parserVars, reconcilerVars, fileVars, poemVars>>

\* lines 24-28: the file is parsed, poems_data is empty
XmlOpen ==
    /\ pc = "x_start"
    /\ items # MissingXml
    /\ poems_data' = <<>>
    /\ pc' = "x_parse"
    /\ UNCHANGED <<parserVars, reconcilerVars, fileVars, items, stats, exit_status>>

\* lines 31-75: the loop body on the next <item>
ParseItem ==
    /\ pc = "x_parse"
    /\ Len(poems_data) < Len(items)
    /\ poems_data' = Append(poems_data, Poem(items[Len(poems_data) + 1]))
    /\ UNCHANGED <<parserVars, reconcilerVars, fileVars, items, stats, pc, exit_status>>

\* lines 84, 95: pd.DataFrame([]) has no columns, and analyze_dataset raises
\* KeyError on df['author'] before anything is written
XmlNoItems ==
    /\ pc = "x_parse"
    /\ Len(poems_data) = Len(items)
    /\ poems_data = <<>>
    /\ pc' = "x_keyerror"
    /\ exit_status' = ExitAfterException
    /\ UNCHANGED <<parserVars, reconcilerVars, fileVars, poemVars>>

\* lines 144-151: the frame is written to poems.csv and poems.parquet
XmlSave ==
    /\ pc = "x_parse"
    /\ Len(poems_data) = Len(items)
    /\ poems_data # <<>>
    /\ pc' = "x_done"
    /\ exit_status' = ExitAfterReturn(0)
    /\ UNCHANGED <<parserVars, reconcilerVars, fileVars, poemVars>>

-----------------------------------------------------------------------------
(* analyze_archaism_frequency.py: load_data, tokenize_text and *)
(* calculate_decade_statistics *)

\* load_data, lines 32-33: the set of the stripped, lower-cased, non-blank
\* lines of the lookup-set file
LoadArchaisms(file) ==
    {Lower(Strip(file[i])) : i \in {j \in DOMAIN file : Strip(file[j]) # <<>>}}

\* [а-яё] of the lower-cased text, and \w
IsRussian(c) == c \in LowerLetters
IsWordChar(c) == IsRussian(c) \/ c \in Digits

\* the last index of the run of letters that starts at i
RECURSIVE RunEnd(_, _)
RunEnd(s, i) ==
    IF i < Len(s) /\ IsRussian(s[i + 1]) THEN RunEnd(s, i + 1) ELSE i

\* re.findall(r'\b[а-яёА-ЯЁ]+\b', s): the runs of letters that have no word
\* character next to them
RECURSIVE FindWords(_, _)
FindWords(s, i) ==
    IF i > Len(s) THEN <<>>
    ELSE IF IsRussian(s[i]) /\ (i = 1 \/ ~IsWordChar(s[i - 1]))
         THEN IF RunEnd(s, i) = Len(s) \/ ~IsWordChar(s[RunEnd(s, i) + 1])
              THEN <<SubSeq(s, i, RunEnd(s, i))>> \o FindWords(s, RunEnd(s, i) + 1)
              ELSE FindWords(s, RunEnd(s, i) + 1)
    ELSE FindWords(s, i + 1)

\* tokenize_text, lines 39-44
TokenizeText(text) ==
    IF text = None \/ text = <<>> THEN <<>> ELSE FindWords(Lower(text), 1)

\* a decade that rounds to the nearest ten
DecadeRounded(year) == ((year + 5) \div 10) * 10

\* line 61: (df['year'] // 10) * 10
Decade(year) == (year \div 10) * 10

\* line 58: the poems with a known year
Dated(df) == SelectSeq(df, LAMBDA poem : poem.year # NoYear)

\* line 65: sorted(df['decade'].unique())
RECURSIVE SortedInts(_)
SortedInts(ints) ==
    IF ints = {} THEN <<>>
    ELSE LET least == CHOOSE n \in ints : \A m \in ints : n <= m
         IN  <<least>> \o SortedInts(ints \ {least})

SortedDecades(df) ==
    SortedInts({Decade(Dated(df)[i].year[1]) : i \in DOMAIN Dated(df)})

\* lines 68-77: the two totals over a list of texts
RECURSIVE TotalWords(_)
TotalWords(texts) ==
    IF texts = <<>> THEN 0
    ELSE Len(TokenizeText(Head(texts))) + TotalWords(Tail(texts))

RECURSIVE TotalArchaisms(_, _)
TotalArchaisms(texts, archaisms_set) ==
    IF texts = <<>> THEN 0
    ELSE Len(SelectSeq(TokenizeText(Head(texts)), LAMBDA w : w \in archaisms_set))
             + TotalArchaisms(Tail(texts), archaisms_set)

\* lines 66-88: the row of one decade; archaisms_per_1000 is kept as the
\* exact fraction <<numerator, denominator>>
DecadeStats(df, archaisms_set, decade) ==
    LET decade_poems == SelectSeq(Dated(df), LAMBDA poem : Decade(poem.year[1]) = decade)
        texts == [i \in DOMAIN decade_poems |-> decade_poems[i].text]
        total_words == TotalWords(texts)
        total_archaisms == TotalArchaisms(texts, archaisms_set)
    IN  [decade |-> decade,
         poem_count |-> Len(decade_poems),
         total_words |-> total_words,
         archaism_count |-> total_archaisms,
         archaisms_per_1000 |->
             IF total_words > 0 THEN <<total_archaisms * 1000, total_words>>
             ELSE <<0, 1>>]

\* main, line 306, and lines 58-63: the frame poems.parquet holds is loaded
\* and the loop over the decades begins
LoadData ==
    /\ pc = "x_done"
    /\ stats' = <<>>
    /\ pc' = "f_decades"
    /\ exit_status' = -1
    /\ UNCHANGED <<parserVars, reconcilerVars, fileVars, items, poems_data>>

\* lines 65-88: the loop body on the next decade
CalcDecade ==
    /\ pc = "f_decades"
    /\ Len(stats) < Len(SortedDecades(poems_data))
    /\ stats' = Append(stats,
                       DecadeStats(poems_data, LoadArchaisms(wordlist_file),
                                   SortedDecades(poems_data)[Len(stats) + 1]))
    /\ UNCHANGED <<parserVars, reconcilerVars, fileVars, items, poems_data, pc,
                   exit_status>>

\* line 94: the rows are returned
DecadesDone ==
    /\ pc = "f_decades"
    /\ Len(stats) = Len(SortedDecades(poems_data))
    /\ pc' = "f_stats"
    /\ UNCHANGED <<parserVars, reconcilerVars, fileVars, poemVars, exit_status>>

NextPoems ==
    \/ XmlMissingInput
    \/ XmlOpen
    \/ ParseItem
    \/ XmlNoItems
    \/ XmlSave
    \/ LoadData
    \/ CalcDecade
    \/ DecadesDone

SpecPoems == InitPoems /\ [][NextPoems]_vars

-----------------------------------------------------------------------------
(* Claims about the parser *)

\* the step that runs the loop body on lines[line_num + 1]
IsParseLineStep == pc = "p_parse" /\ line_num' = line_num + 1

\* "after trimming, exactly one alphabetic character, and it is uppercase"
IsSectionHeader(raw) == Len(Strip(raw)) = 1 /\ Strip(raw)[1] \in UpperLetters

\* C6: every record parse_archaisms_file emits, and every record
\* add_new_archaisms synthesizes, has a non-empty word.
WordNeverEmpty ==
    /\ \A i \in DOMAIN entries : entries[i].word # <<>>
    /\ \A i \in DOMAIN df_updated : df_updated[i].word # <<>>

\* C7: a line that trims to one uppercase letter sets current_letter to it,
\* sets started_parsing and emits no record, whatever the state before; no
\* other line changes current_letter or started_parsing.
HeaderDetection ==
    [][IsParseLineStep =>
         IF IsSectionHeader(lines[line_num + 1])
         THEN /\ current_letter' = Strip(lines[line_num + 1])
              /\ started_parsing' = TRUE
              /\ entries' = entries
         ELSE /\ current_letter' = current_letter
              /\ started_parsing' = started_parsing]_vars

\* a second header has replaced the first one and no record was emitted
HeaderDetectionWitness ==
    /\ pc = "p_parse"
    /\ line_num = 2
    /\ lines[1] = <<"A">>
    /\ lines[2] = <<"B">>
    /\ current_letter = <<"B">>
    /\ started_parsing
    /\ entries = <<>>

\* the index of the first section header among the first n lines, 0 if none
RECURSIVE FirstHeaderFrom(_, _, _)
FirstHeaderFrom(file, i, n) ==
    IF i > n THEN 0
    ELSE IF IsSectionHeader(file[i]) THEN i
    ELSE FirstHeaderFrom(file, i + 1, n)

FirstHeader(file, n) == FirstHeaderFrom(file, 1, n)

FromFirstHeader(file) ==
    IF FirstHeader(file, Len(file)) = 0 THEN <<>>
    ELSE SubSeq(file, FirstHeader(file, Len(file)), Len(file))

\* C8: no line before the first section header produces a record, and the
\* records of a file are those of the file cut to start at its first header.
SkipBeforeStart ==
    pc = "p_parse" =>
        /\ FirstHeader(lines, line_num) = 0 => entries = <<>>
        /\ line_num = Len(lines) =>
               entries = ParseArchaismsFile(FromFirstHeader(lines))

\* a well-formed entry line before the first header was skipped, the same
\* kind of line after it was not
SkipBeforeStartWitness ==
    /\ pc = "p_parse"
    /\ line_num = Len(lines)
    /\ Len(lines) = 3
    /\ lines[1] = <<"A", "b", " ", "~", " ", "d">>
    /\ lines[2] = <<"A">>
    /\ Matches(Strip(lines[3]))
    /\ Len(entries) = 1

\* the step appends exactly one record, with these four fields
EmitsOne(word, definition, variants, original) ==
    /\ Len(entries') = Len(entries) + 1
    /\ SubSeq(entries', 1, Len(entries)) = entries
    /\ entries'[Len(entries')].word = word
    /\ entries'[Len(entries')].definition = definition
    /\ entries'[Len(entries')].variants = variants
    /\ entries'[Len(entries')].original = original

\* the line "w - d" of C9: w, one space, the first dash of the line, one
\* space, d; w without comma or parenthesis, w and d not blank
SingleW(raw) == SubSeq(raw, 1, FirstDash(raw) - 2)
SingleD(raw) == SubSeq(raw, FirstDash(raw) + 2, Len(raw))

IsSingleWordLine(raw) ==
    /\ FirstDash(raw) >= 3
    /\ FirstDash(raw) + 2 <= Len(raw)
    /\ raw[FirstDash(raw) - 1] = Space
    /\ raw[FirstDash(raw) + 1] = Space
    /\ Range(SingleW(raw)) \cap {Comma, LParen, RParen} = {}
    /\ Strip(SingleW(raw)) # <<>>
    /\ Strip(SingleD(raw)) # <<>>

\* C9 as claimed: after a section header such a line produces exactly one
\* record with word = w trimmed, definition = d trimmed, variants unset and
\* original = w.
SingleWordLineOriginalUntrimmed ==
    [][(IsParseLineStep /\ started_parsing /\ IsSingleWordLine(lines[line_num + 1])) =>
         EmitsOne(Strip(SingleW(lines[line_num + 1])),
                  Strip(SingleD(lines[line_num + 1])),
                  None,
                  SingleW(lines[line_num + 1]))]_vars

\* C9 as amended: ... and original = w trimmed (the words part is stripped
\* before it is stored).
SingleWordLine ==
    [][(IsParseLineStep /\ started_parsing /\ IsSingleWordLine(lines[line_num + 1])) =>
         EmitsOne(Strip(SingleW(lines[line_num + 1])),
                  Strip(SingleD(lines[line_num + 1])),
                  None,
                  Strip(SingleW(lines[line_num + 1])))]_vars

\* the line "Ab  ~ d" (w = "Ab ") came after a header and gave its record
SingleWordLineWitness ==
    /\ pc = "p_parse"
    /\ line_num = 2
    /\ lines[1] = <<"A">>
    /\ lines[2] = <<"A", "b", " ", " ", "~", " ", "d">>
    /\ IsSingleWordLine(lines[2])
    /\ Len(entries) = 1
    /\ entries[1].word = <<"A", "b">>
    /\ entries[1].original = <<"A", "b">>
    /\ entries[1].variants = None

\* the words part of a matched line and its trimmed comma-separated tokens
WordsPartOf(raw) == Strip(SubSeq(Strip(raw), 1, FirstDash(Strip(raw)) - 1))

TokensOf(raw) ==
    LET parts == Split(WordsPartOf(raw), Comma)
    IN  [i \in 1..Len(parts) |-> Strip(parts[i])]

HasParens(token) == Range(token) \cap {LParen, RParen} # {}

VariantsOf(raw) ==
    IF Len(TokensOf(raw)) >= 2
    THEN Join(Tail(TokensOf(raw)), <<Comma, Space>>)
    ELSE None

\* C10 as claimed: after a section header a matched line with k >= 2 tokens
\* produces one record whose word is the first trimmed token and whose
\* variants is the other k-1 trimmed tokens, in order, joined with ", ";
\* with k = 1 variants is unset.
VariantSplittingWordIsFirstToken ==
    [][(IsParseLineStep /\ started_parsing /\ Matches(Strip(lines[line_num + 1]))) =>
         /\ Len(entries') = Len(entries) + 1
         /\ Len(TokensOf(lines[line_num + 1])) >= 2 =>
                entries'[Len(entries')].word = TokensOf(lines[line_num + 1])[1]
         /\ entries'[Len(entries')].variants = VariantsOf(lines[line_num + 1])]_vars

\* C10 as amended: the word is the first trimmed token once its
\* parenthesized annotations are removed (the token itself when it has
\* none); variants as claimed.
VariantSplitting ==
    [][(IsParseLineStep /\ started_parsing /\ Matches(Strip(lines[line_num + 1]))) =>
         /\ Len(entries') = Len(entries) + 1
         /\ Len(TokensOf(lines[line_num + 1])) >= 2 =>
                entries'[Len(entries')].word =
                    IF HasParens(TokensOf(lines[line_num + 1])[1])
                    THEN Strip(StripParens(TokensOf(lines[line_num + 1])[1]))
                    ELSE TokensOf(lines[line_num + 1])[1]
         /\ entries'[Len(entries')].variants = VariantsOf(lines[line_num + 1])]_vars

\* "a (b) , Ab ~ d" came after a header: word "a", variants "Ab"
VariantSplittingWitness ==
    /\ pc = "p_parse"
    /\ line_num = 2
    /\ lines[1] = <<"A">>
    /\ lines[2] = <<"a", " ", "(", "b", ")", " ", ",", " ", "A", "b", " ", "~", " ", "d">>
    /\ Len(entries) = 1
    /\ entries[1].word = <<"a">>
    /\ entries[1].variants = <<"A", "b">>

\* the positions of a token that lie in a parenthesized annotation: from a
\* "(" up to the first ")" after it
InAnnotation(token, i) ==
    \E a \in 1..i :
        /\ token[a] = LParen
        /\ \A k \in a..(i - 1) : token[k] # RParen
        /\ \E b \in i..Len(token) : token[b] = RParen

\* the whitespace that runs up to the "(" of an annotation
BeforeAnnotation(token, i) ==
    /\ IsSpace(token[i])
    /\ \E a \in (i + 1)..Len(token) :
           /\ token[a] = LParen
           /\ InAnnotation(token, a)
           /\ \A k \in i..(a - 1) : IsSpace(token[k])

RECURSIVE KeepFrom(_, _)
KeepFrom(token, i) ==
    IF i > Len(token) THEN <<>>
    ELSE IF InAnnotation(token, i) \/ BeforeAnnotation(token, i)
         THEN KeepFrom(token, i + 1)
         ELSE <<token[i]>> \o KeepFrom(token, i + 1)

\* the token with every annotation, and the whitespace before it, removed
WithoutAnnotations(token) == Strip(KeepFrom(token, 1))

\* C11: after a section header the record of a matched line has as word
\* the first trimmed token with every parenthesized annotation (and the
\* whitespace before it) removed, while variants is the other trimmed
\* tokens joined with their annotations intact and original is the trimmed
\* words part with its annotations intact.
ParentheticalStripping ==
    [][(IsParseLineStep /\ started_parsing /\ Matches(Strip(lines[line_num + 1]))) =>
         /\ Len(entries') = Len(entries) + 1
         /\ entries'[Len(entries')].word =
                WithoutAnnotations(TokensOf(lines[line_num + 1])[1])
         /\ entries'[Len(entries')].variants = VariantsOf(lines[line_num + 1])
         /\ entries'[Len(entries')].original = WordsPartOf(lines[line_num + 1])]_vars

\* "a (b) , a (b) - d" came after a header: the word lost its annotation,
\* variants and original kept theirs
ParentheticalStrippingWitness ==
    /\ pc = "p_parse"
    /\ line_num = 2
    /\ lines[1] = <<"B">>
    /\ WordsPartOf(lines[2]) =
           <<"a", " ", "(", "b", ")", " ", ",", " ", "a", " ", "(", "b", ")">>
    /\ Len(entries) = 1
    /\ entries[1].word = <<"a">>
    /\ entries[1].variants = <<"a", " ", "(", "b", ")">>
    /\ entries[1].original = WordsPartOf(lines[2])

\* a line that is neither blank nor, being no section header, without the
\* "words, dash, definition" shape
IsKept(raw) == IsSectionHeader(raw) \/ Matches(Strip(raw))

\* the file with its blank lines and its shapeless lines deleted
Kept(file) == SelectSeq(file, IsKept)

\* the parser state as the record ParseStep works on
ParserState ==
    [entries |-> entries,
     current_letter |-> current_letter,
     started_parsing |-> started_parsing]

\* C12: the loop body is defined on every line of every file (it yields a
\* state with no record or one record more), and after any number of lines
\* entries, current_letter and started_parsing are what they would be had
\* the blank lines and the lines without the "words, dash, definition"
\* shape (section headers apart) not been in the file.
LenientParsing ==
    pc = "p_parse" =>
        /\ line_num < Len(lines) =>
               Len(ParseStep(ParserState, lines[line_num + 1]).entries)
                   \in {Len(entries), Len(entries) + 1}
        /\ ParserState = ParseFrom(ParserStart, Kept(SubSeq(lines, 1, line_num)))

\* a blank or a shapeless line stood between the header and an entry line,
\* and the one record came out all the same
LenientParsingWitness ==
    /\ pc = "p_parse"
    /\ line_num = Len(lines)
    /\ Len(lines) = 3
    /\ lines[1] = <<"A">>
    /\ lines[2] \in {<<"a">>, <<" ">>}
    /\ Matches(Strip(lines[3]))
    /\ Len(Kept(lines)) = 2
    /\ Len(entries) = 1
    /\ entries[1].letter = <<"A">>

\* the section headers above line i, and the nearest of them
HeadersBefore(i) == {j \in 1..(i - 1) : IsSectionHeader(lines[j])}

LastHeaderBefore(i) ==
    CHOOSE j \in HeadersBefore(i) : \A k \in HeadersBefore(i) : k <= j

\* the lines among the first n that have a header above them and the
\* "words, dash, definition" shape
EmittingLines(n) ==
    {i \in 1..n : HeadersBefore(i) # {} /\ Matches(Strip(lines[i]))}

\* the k-th of them, counted from the top of the file
NthEmitting(n, k) ==
    CHOOSE i \in EmittingLines(n) :
        Cardinality({j \in EmittingLines(n) : j <= i}) = k

\* C13: after any number of lines there is one record per matched line
\* below a header, the records stand in the order of their lines, and the
\* letter of each is the nearest section header above its line, never unset.
SectionAttribution ==
    pc = "p_parse" =>
        /\ Len(entries) = Cardinality(EmittingLines(line_num))
        /\ \A k \in 1..Len(entries) :
               /\ entries[k].letter # None
               /\ entries[k].letter =
                      Strip(lines[LastHeaderBefore(NthEmitting(line_num, k))])
               /\ entries[k].original =
                      WordsPartOf(lines[NthEmitting(line_num, k)])
               /\ entries[k].definition =
                      Strip(Group2(Strip(lines[NthEmitting(line_num, k)])))

\* two headers, then an entry line: its record carries the second header
SectionAttributionWitness ==
    /\ pc = "p_parse"
    /\ line_num = 3
    /\ lines[1] = <<"A">>
    /\ lines[2] = <<"B">>
    /\ Matches(Strip(lines[3]))
    /\ Strip(lines[3])[1] = "A"
    /\ Len(entries) = 1
    /\ entries[1].letter = <<"B">>

\* the trimmed line has an en-dash or a hyphen; the place of the first one
HasDash(raw) == \E i \in 1..Len(Strip(raw)) : Strip(raw)[i] \in {EnDash, Hyphen}

SplitPoint(raw) ==
    CHOOSE i \in 1..Len(Strip(raw)) :
        /\ Strip(raw)[i] \in {EnDash, Hyphen}
        /\ \A j \in 1..(i - 1) : Strip(raw)[j] \notin {EnDash, Hyphen}

\* C20: a line below a section header that has an en-dash or a hyphen is
\* split at the first of them: with text on both sides it gives one record
\* whose original is the trimmed text before it and whose definition is the
\* trimmed text after it, later dashes included; with no text before it or
\* no text after it the line gives no record.
DashSplitPoint ==
    [][(IsParseLineStep /\ started_parsing /\ HasDash(lines[line_num + 1])) =>
         IF /\ SplitPoint(lines[line_num + 1]) > 1
            /\ SplitPoint(lines[line_num + 1]) < Len(Strip(lines[line_num + 1]))
         THEN /\ Len(entries') = Len(entries) + 1
              /\ entries'[Len(entries')].original =
                     Strip(SubSeq(Strip(lines[line_num + 1]), 1,
                                  SplitPoint(lines[line_num + 1]) - 1))
              /\ entries'[Len(entries')].definition =
                     Strip(SubSeq(Strip(lines[line_num + 1]),
                                  SplitPoint(lines[line_num + 1]) + 1,
                                  Len(Strip(lines[line_num + 1]))))
         ELSE entries' = entries]_vars

\* "Ab-d - d" came after a header: the hyphen ended the words part and the
\* later dash stayed in the definition
DashSplitPointWitness ==
    /\ pc = "p_parse"
    /\ line_num = 2
    /\ lines[1] = <<"A">>
    /\ lines[2] = <<"A", "b", "-", "d", " ", "-", " ", "d">>
    /\ Len(entries) = 1
    /\ entries[1].original = <<"A", "b">>
    /\ entries[1].definition = <<"d", " ", "-", " ", "d">>

-----------------------------------------------------------------------------
(* Claims about the reconciler *)

\* the lookup set as sections 4.2 and 4.3 describe it: every lower-cased
\* word, and every lower-cased, trimmed, comma-split token of the variants
\* that are present
TokenSet(variants) ==
    {Lower(Strip(Split(variants, Comma)[k])) : k \in 1..Len(Split(variants, Comma))}
    \ {<<>>}

LookupSet(df) ==
    {Lower(df[i].word) : i \in DOMAIN df}
    \cup UNION {TokenSet(df[i].variants) : i \in {j \in DOMAIN df : df[j].variants # None}}

\* the headwords the manual list proposes: its non-blank lines, trimmed
Proposed == {Strip(manual_lines[i]) : i \in DOMAIN manual_lines} \ {<<>>}

\* the number of rows of df whose word is w
CountWord(df, w) == Cardinality({i \in DOMAIN df : df[i].word = w})

\* C1: reconciling the collection a reconciliation returned, with its lookup
\* set computed afresh and the same proposed list, adds nothing and returns
\* the same records.
IdempotentReconciliation ==
    runs >= 2 =>
        /\ pc = "r_loaded" => df_existing = df_updated
        /\ pc = "r_added" => added_count = 0 /\ df_updated = df_existing

\* the first run added records, the second run has just added none
IdempotentReconciliationWitness ==
    /\ runs = 2
    /\ pc = "r_added"
    /\ Len(df_existing) > Len(entries)
    /\ added_count = 0

\* C2: a proposed headword whose lower-case form is the lower-case form of
\* an existing word, or of a trimmed comma-split token of existing variants,
\* gets no record and is not counted as added.
CaseInsensitiveDedup ==
    pc = "r_added" =>
        /\ \A p \in Proposed :
               Lower(p) \in LookupSet(df_existing) =>
                   CountWord(df_updated, Capitalize(p))
                       = CountWord(df_existing, Capitalize(p))
        /\ added_count <=
               Cardinality({Lower(p) : p \in Proposed} \ LookupSet(df_existing))
        /\ Len(df_updated) = Len(df_existing) + added_count

\* "B" was proposed against a table that knows it only as a variant, and
\* another proposed word was added in the same run
CaseInsensitiveDedupWitness ==
    /\ pc = "r_added"
    /\ <<"B">> \in Proposed
    /\ \A i \in DOMAIN df_existing : Lower(df_existing[i].word) # <<"b">>
    /\ <<"b">> \in LookupSet(df_existing)
    /\ added_count = 1
    /\ CountWord(df_updated, <<"B">>) = 0

IsSortedByWord(df) ==
    \A i \in 1..(Len(df) - 1) : ~StrLess(df[i + 1].word, df[i].word)

\* C3 as claimed: whatever the order of the existing collection and whatever
\* is proposed, also when nothing is added, the returned collection is sorted
\* by word, ascending, in case-sensitive order.
SortedOutputAlways == pc = "r_added" => IsSortedByWord(df_updated)

\* C3 as amended: the returned collection is sorted by word whenever at
\* least one word is added; when nothing is added it is the existing
\* collection, in the order it had.
SortedOutput ==
    pc = "r_added" =>
        /\ added_count > 0 => IsSortedByWord(df_updated)
        /\ added_count = 0 => df_updated = df_existing

\* an unsorted table was reconciled, a word was added, the result is sorted
SortedOutputWitness ==
    /\ pc = "r_added"
    /\ added_count > 0
    /\ ~IsSortedByWord(df_existing)
    /\ Len(df_updated) = Len(df_existing) + added_count
    /\ IsSortedByWord(df_updated)

\* C4: for every record collection, extract_simple_word_list,
\* load_existing_archaisms and update_wordlist give the same set of strings.
FlatteningIdentical ==
    pc = "r_loaded" =>
        /\ existing_words = ExtractSimpleWordList(df_existing)
        /\ existing_words = UpdateWordlistWords(df_existing)

\* C5: for every record collection the lookup set, as update_wordlist and as
\* extract_simple_word_list compute it, is exactly the lower-cased words and
\* the lower-cased, trimmed, comma-split tokens of the variants present.
FlatteningContent ==
    pc = "r_loaded" =>
        /\ UpdateWordlistWords(df_existing) = LookupSet(df_existing)
        /\ ExtractSimpleWordList(df_existing) = LookupSet(df_existing)

\* C14: the integer add_new_archaisms returns is the number of proposed
\* headwords that are not in the lookup set it was given, and the collection
\* it returns has that many records more than the existing one.
ReconciliationCount ==
    pc = "r_added" =>
        /\ added_count =
               Cardinality({i \in DOMAIN new_words : new_words[i] \notin existing_words})
        /\ added_count = Cardinality(Range(new_words) \ existing_words)
        /\ Len(df_updated) = Len(df_existing) + added_count

\* of two proposed headwords one was in the lookup set and one was added
ReconciliationCountWitness ==
    /\ pc = "r_added"
    /\ Len(new_words) = 2
    /\ Len(df_existing) = 2
    /\ added_count = 1
    /\ Len(df_updated) = 3

\* the number of rows of df that are the record r, field for field
CountRow(df, r) == Cardinality({i \in DOMAIN df : df[i] = r})

\* C15: every record of the existing collection is in the collection
\* add_new_archaisms returns, as often as it was in the existing one and with
\* its five fields as they were, and the existing collection is after the
\* call what was read from the table.
ExistingRecordsKept ==
    pc = "r_added" =>
        /\ \A i \in DOMAIN df_existing :
               CountRow(df_updated, df_existing[i]) = CountRow(df_existing, df_existing[i])
        /\ df_existing = ReadCsv(csv_file)

\* a word was added to a table of two different records with one headword,
\* and both are still there
ExistingRecordsKeptWitness ==
    /\ pc = "r_added"
    /\ added_count = 1
    /\ Len(df_existing) = 2
    /\ df_existing[1].word = df_existing[2].word
    /\ df_existing[1] # df_existing[2]
    /\ Len(df_updated) = 3

\* p with its first character in upper case and the rest as it is
UpperFirst(p) == <<UpperChar(p[1])>> \o Tail(p)

\* the proposed headwords that add_new_archaisms adds
Added == Range(new_words) \ existing_words

\* C16: for every proposed headword p that is added the returned collection
\* has exactly one record whose word is p with its first character in upper
\* case and the rest unchanged; its definition is the placeholder, its
\* variants is unset, its letter is the upper case of p's first character
\* and its original equals its word.
SynthesizedRecordShape ==
    pc = "r_added" =>
        \A p \in Added :
            /\ p # <<>>
            /\ CountWord(df_updated, UpperFirst(p)) = 1
            /\ \E i \in DOMAIN df_updated :
                   df_updated[i] = [word |-> UpperFirst(p),
                                    definition |-> Placeholder,
                                    variants |-> None,
                                    letter |-> <<UpperChar(p[1])>>,
                                    original |-> UpperFirst(p)]

\* "ab" was proposed and added: its record has word and original "Ab" and
\* letter "A"
SynthesizedRecordShapeWitness ==
    /\ pc = "r_added"
    /\ <<"a", "b">> \in Added
    /\ \E i \in DOMAIN df_updated :
           /\ df_updated[i].word = <<"A", "b">>
           /\ df_updated[i].definition = Placeholder
           /\ df_updated[i].letter = <<"A">>

\* C17 as claimed: a script that finds a required input file absent ends
\* with a non-zero exit status: the parser script without the dictionary
\* text, the reconciler script without the manual word list or without the
\* record table.
MissingInputExitsNonZero ==
    /\ pc = "p_exit" => exit_status # 0
    /\ pc = "r_exit" => exit_status # 0
    /\ pc = "r_filenotfound" => exit_status # 0

\* the step in which a reconciliation run that got as far as the merge ends
IsRunEnd == pc = "r_added" /\ pc' = "r_done"

\* C18 as claimed: every reconciliation run that completes, one that adds
\* no word included, writes the lookup-set file, and writes it as the
\* lookup set of the resulting collection, lower-cased and sorted, one word
\* per line.
LookupFileRegeneratedEveryRun ==
    [][IsRunEnd =>
         /\ writes'.wordlist = writes.wordlist + 1
         /\ wordlist_file' = SortedWords(LookupSet(df_updated))]_vars

\* C18 as amended: a run that adds at least one word writes the lookup-set
\* file, as exactly the sorted lower-cased lookup set of the resulting
\* collection, one word per line; a run that adds no word does not write
\* the file and leaves it as it was.
LookupFileRegenerated ==
    [][IsRunEnd =>
         IF added_count > 0
         THEN /\ writes'.wordlist = writes.wordlist + 1
              /\ wordlist_file' = SortedWords(LookupSet(df_updated))
         ELSE /\ writes'.wordlist = writes.wordlist
              /\ wordlist_file' = wordlist_file]_vars

\* a run added a word and the file is the sorted lookup set of the three
\* records; it is not the old file with a line appended
LookupFileRegeneratedWitness ==
    /\ pc = "r_done"
    /\ added_count = 1
    /\ Len(df_updated) = 3
    /\ wordlist_file = SortedWords(LookupSet(df_updated))
    /\ wordlist_file[Len(wordlist_file)] \in existing_words

\* C19: in both scripts a step that writes the CSV file writes the Parquet
\* file too, with the same record collection, and when a run of either
\* script has completed the two files hold the same records.
LockstepPersistence ==
    [][/\ writes'.csv # writes.csv =>
              /\ writes'.parquet = writes.parquet + 1
              /\ parquet_file' = csv_file'
       /\ pc' \in {"p_done", "r_done"} => parquet_file' = csv_file']_vars

\* the parser script wrote both files and a reconciler run wrote both
\* again, with the three records of the merged collection
LockstepPersistenceWitness ==
    /\ pc = "r_done"
    /\ writes.csv = 2
    /\ writes.parquet = 2
    /\ Len(csv_file) = 3
    /\ parquet_file = csv_file
    /\ csv_file = df_updated

\* C21 as claimed: whenever a run of either script has completed, the
\* lookup-set file holds exactly the lookup set of the record table that is
\* in the CSV file.
LookupFileTracksTable ==
    (pc \in {"p_done", "r_done"} /\ csv_file # <<>>) =>
        Range(wordlist_file) = LookupSet(ReadCsv(csv_file))

\* C22: the list load_manual_archaisms returns has no empty string, stands
\* in strictly ascending order (so it has no duplicate), and its elements
\* are exactly the trimmed, lower-cased non-blank lines of the file.
ManualListLoading ==
    pc = "r_manual" =>
        /\ \A i \in DOMAIN new_words : new_words[i] # <<>>
        /\ \A i \in DOMAIN new_words : \A j \in DOMAIN new_words :
               i < j => StrLess(new_words[i], new_words[j])
        /\ Range(new_words) =
               {Lower(Strip(manual_lines[i])) :
                    i \in {j \in DOMAIN manual_lines : Strip(manual_lines[j]) # <<>>}}

\* the file "d", "Ab " was loaded as "ab", "d"
ManualListLoadingWitness ==
    /\ pc = "r_manual"
    /\ manual_lines = << <<"d">>, <<"A", "b", " ">> >>
    /\ new_words = << <<"a", "b">>, <<"d">> >>

\* C24: the lookup set of the collection add_new_archaisms returns is the
\* lookup set of the existing collection united with the proposed words:
\* every proposed word is in it and nothing else has come in.
LookupSetGrowth ==
    pc = "r_added" =>
        LookupSet(df_updated) = LookupSet(df_existing) \cup Range(new_words)

\* of two proposed words one was known and one was added, and the lookup
\* set grew by exactly that one
LookupSetGrowthWitness ==
    /\ pc = "r_added"
    /\ Len(new_words) = 2
    /\ added_count = 1
    /\ Cardinality(LookupSet(df_updated)) = Cardinality(LookupSet(df_existing)) + 1
    /\ Range(new_words) \subseteq LookupSet(df_updated)

\* C25 as claimed: a word that is in the lookup-set file after the parser
\* script or a reconciler run is in it after every later reconciler run: no
\* step takes a word out of the file.
RecognisedWordsKept ==
    [][Range(wordlist_file) \subseteq Range(wordlist_file')]_vars

\* no two records of df have the same lower-cased word
UniqueHeadwords(df) ==
    \A i \in DOMAIN df : \A j \in DOMAIN df :
        i # j => Lower(df[i].word) # Lower(df[j].word)

\* C26: when no two records the parser wrote share a lower-cased word, no
\* two records of a collection a reconciliation returns do, and no word a
\* reconciliation appends is, lower-cased, a variant token of any record.
HeadwordUniqueness ==
    (pc = "r_added" /\ UniqueHeadwords(entries)) =>
        /\ UniqueHeadwords(df_existing)
        /\ UniqueHeadwords(df_updated)
        /\ \A p \in Added : \A i \in DOMAIN df_updated :
               df_updated[i].variants # None => p \notin TokenSet(df_updated[i].variants)

\* two records with different headwords; "d", a variant token of one of
\* them, was proposed and not added, another word was
HeadwordUniquenessWitness ==
    /\ pc = "r_added"
    /\ Len(entries) = 2
    /\ UniqueHeadwords(entries)
    /\ <<"d">> \in Range(new_words)
    /\ \E i \in DOMAIN df_existing :
           df_existing[i].variants # None /\ <<"d">> \in TokenSet(df_existing[i].variants)
    /\ \A i \in DOMAIN df_existing : Lower(df_existing[i].word) # <<"d">>
    /\ added_count = 1
    /\ Len(df_updated) = 3
    /\ UniqueHeadwords(df_updated)

\* C27 as claimed: for the records the parser emits, neither the lookup set
\* extract_simple_word_list gives (the one written to the lookup-set file)
\* nor the one update_wordlist gives holds the empty string.
LookupNeverEmptyString ==
    pc = "p_done" =>
        /\ <<>> \notin ExtractSimpleWordList(entries)
        /\ <<>> \notin Range(wordlist_file)
        /\ <<>> \notin UpdateWordlistWords(entries)

\* C28: a reconciler run whose added count is 0 has got back the existing
\* collection itself, and ends without writing the CSV file, the Parquet
\* file or the lookup-set file: the three files and their write counts are
\* what they were.
NoOpReconciliation ==
    [][(IsRunEnd /\ added_count = 0) =>
         /\ df_updated = df_existing
         /\ Range(new_words) \subseteq existing_words
         /\ writes' = writes
         /\ csv_file' = csv_file
         /\ parquet_file' = parquet_file
         /\ wordlist_file' = wordlist_file]_vars

\* a run on a non-empty manual list ended with nothing added; the files
\* are the parser's, written once
NoOpReconciliationWitness ==
    /\ pc = "r_done"
    /\ runs = 1
    /\ new_words # <<>>
    /\ added_count = 0
    /\ df_updated = df_existing
    /\ writes = [csv |-> 1, parquet |-> 1, wordlist |-> 1]
    /\ csv_file = entries

\* the script at its start finds its input file absent
InputIsMissing ==
    \/ pc = "p_start" /\ lines = Missing
    \/ pc = "r_start" /\ manual_lines = Missing

\* C29: a parser run without the dictionary file, and a reconciler run
\* without the manual word list, ends in its first step, and neither the
\* contents nor the write counts of the CSV file, the Parquet file and the
\* lookup-set file change.
NoPartialOutput ==
    [][InputIsMissing =>
         /\ pc' \in {"p_exit", "r_exit"}
         /\ writes' = writes
         /\ csv_file' = csv_file
         /\ parquet_file' = parquet_file
         /\ wordlist_file' = wordlist_file]_vars

\* the reconciler script ended for want of its manual list, and the three
\* files are as the parser script wrote them
NoPartialOutputWitness ==
    /\ pc = "r_exit"
    /\ manual_lines = Missing
    /\ writes = [csv |-> 1, parquet |-> 1, wordlist |-> 1]
    /\ csv_file = entries
    /\ parquet_file = entries
    /\ wordlist_file = SortedWords(ExtractSimpleWordList(entries))
    /\ wordlist_file # <<>>

-----------------------------------------------------------------------------
(* Claims about the poem scripts *)

\* the date texts that are numerals, and the numbers they stand for
NumeralValue == (<<"1", "3">> :> 13) @@ (<<"-", "1", "8">> :> (0 - 18))

IsNumeral(text) == text \in DOMAIN NumeralValue

\* floor(sum / 2)
FloorHalf(sum) == CHOOSE q \in (0 - 40)..40 : 2 * q <= sum /\ sum < 2 * q + 2

\* the year C23 gives to a poem with these two date texts
DerivedYear(date_from, date_to) ==
    IF date_from # None /\ date_to # None
    THEN IF IsNumeral(date_from) /\ IsNumeral(date_to)
         THEN <<FloorHalf(NumeralValue[date_from] + NumeralValue[date_to])>>
         ELSE NoYear
    ELSE IF date_from = None /\ date_to = None THEN NoYear
    ELSE IF date_from # None
         THEN IF IsNumeral(date_from) THEN <<NumeralValue[date_from]>> ELSE NoYear
    ELSE IF IsNumeral(date_to) THEN <<NumeralValue[date_to]>> ELSE NoYear

\* C23: every <item> read so far has its record, whatever its dates are,
\* and the year of the record is floor((date_from + date_to) / 2) when both
\* dates are present and numeric, the one present date when it is numeric,
\* and absent when a date that is used is not numeric or both are missing.
YearDerivation ==
    /\ pc = "x_parse" => Len(poems_data) <= Len(items)
    /\ pc \in {"x_done", "f_decades", "f_stats"} => Len(poems_data) = Len(items)
    /\ pc \in {"x_parse", "x_done", "f_decades", "f_stats"} =>
           \A k \in DOMAIN poems_data :
               /\ poems_data[k].date_from = items[k].date_from
               /\ poems_data[k].date_to = items[k].date_to
               /\ poems_data[k].text = items[k].text
               /\ poems_data[k].year = DerivedYear(items[k].date_from, items[k].date_to)

\* a poem dated 13 to -18 has the year -3, and a poem with a date that is
\* no number has its record, without a year
YearDerivationWitness ==
    /\ pc = "x_done"
    /\ Len(poems_data) = 2
    /\ items[1].date_from = <<"1", "3">>
    /\ items[1].date_to = <<"-", "1", "8">>
    /\ poems_data[1].year = <<0 - 3>>
    /\ items[2].date_from = <<"1", "3">>
    /\ items[2].date_to = <<"x">>
    /\ poems_data[2].year = NoYear

\* 10 * floor(year / 10)
FloorDecade(year) ==
    10 * (CHOOSE q \in (0 - 10)..10 : 10 * q <= year /\ year < 10 * q + 10)

\* the rows of stats whose decade is d
RowsOf(d) == {r \in DOMAIN stats : stats[r].decade = d}

\* the poems that have the year <<y>> for some y in decade d
PoemsOf(d) ==
    {k \in DOMAIN poems_data :
        poems_data[k].year # NoYear /\ FloorDecade(poems_data[k].year[1]) = d}

RECURSIVE SumPoemCount(_)
SumPoemCount(rows) ==
    IF rows = <<>> THEN 0 ELSE Head(rows).poem_count + SumPoemCount(Tail(rows))

\* C30: in the rows calculate_decade_statistics returns, every poem with a
\* known year is counted in exactly one row, the one of the decade
\* 10 * floor(year / 10); the poems without a year are counted in none (the
\* poem counts add up to the number of dated poems); and in every row
\* archaism_count is at most total_words.
DecadePartition ==
    /\ pc = "f_stats" =>
           /\ \A k \in DOMAIN poems_data :
                  poems_data[k].year # NoYear =>
                      /\ Cardinality(RowsOf(FloorDecade(poems_data[k].year[1]))) = 1
                      /\ \A r \in RowsOf(FloorDecade(poems_data[k].year[1])) :
                             stats[r].poem_count =
                                 Cardinality(PoemsOf(FloorDecade(poems_data[k].year[1])))
           /\ \A r \in DOMAIN stats : PoemsOf(stats[r].decade) # {}
           /\ SumPoemCount(stats) =
                  Cardinality({k \in DOMAIN poems_data : poems_data[k].year # NoYear})
    /\ pc \in {"f_decades", "f_stats"} =>
           \A r \in DOMAIN stats :
               /\ stats[r].archaism_count <= stats[r].total_words
               /\ stats[r].archaism_count >= 0

\* the poems of the years -3 and -18, both with words, and nothing else:
\* two rows, decades -20 and -10, one poem each, an archaism in each
DecadePartitionWitness ==
    /\ pc = "f_stats"
    /\ Len(poems_data) = 2
    /\ poems_data[1].year = <<0 - 3>>
    /\ poems_data[2].year = <<0 - 18>>
    /\ Len(stats) = 2
    /\ stats[1].decade = 0 - 20
    /\ stats[2].decade = 0 - 10
    /\ stats[1].poem_count = 1
    /\ stats[2].poem_count = 1
    /\ stats[2].total_words = 2
    /\ stats[2].archaism_count = 1

====
